---- MODULE Spec2Model ----
(***************************************************************************)
(* A model of pymor's lexicon and segmentation engine:                     *)
(*   - class Model of src/pymor/obj.py (trie store + memoized tokenize),   *)
(*   - class Dictionary of src/pymor.py (trie store + memoized match).     *)
(* Surface strings are sequences of one-character strings, so that         *)
(* prefixes, remainders and concatenation are computed, not assumed.       *)
(***************************************************************************)
EXTENDS Naturals, Sequences, FiniteSets, Bags

VARIABLES
  m_entries,  \* Model._entries: the CharTrie, a map key -> set of Entry
  m_cache,    \* the lru_cache of Model.tokenize: a map req -> frozenset
  m_last,     \* the last call made on the Model and what it returned
  d_entries,  \* Dictionary._entries
  d_cache,    \* the lru_cache of Dictionary.match: a map req -> the state
              \* of the iterator object it holds
  d_last,     \* the last call made on the Dictionary and what it yielded
  d_seen,     \* per req, what the first match since the last mutation yielded
  m_cls,      \* the class of the Model instance: Model or a subclass of it
  b_entries,  \* _entries of a second instance of the Model class
  b_cache,    \* what the lru_cache of Model.tokenize holds for the second
              \* instance: the cache belongs to the class and its keys are
              \* (self, req), m_cache being the part of the first instance
  u           \* the lexicons that are merged, by name

m_vars == <<m_entries, m_cache, m_last, m_cls, b_entries, b_cache>>
d_vars == <<d_entries, d_cache, d_last, d_seen>>
vars == <<m_entries, m_cache, m_last, d_entries, d_cache, d_last, d_seen,
          m_cls, b_entries, b_cache, u>>

\* what no call on the first Model instance touches
m_frame == <<m_cls, b_entries, d_vars, u>>
\* what no call on the Dictionary touches
d_frame == <<m_vars, u>>

----------------------------------------------------------------------------
(* Bounds of the model *)

\* longest batch handed to add_raw_batch / add_batch
MaxBatch == 2
\* depth at which the interpreter gives up a chain of nested calls
\* (RecursionError); deeper than any chain a stored non-empty phon produces
RecursionLimit == 4

----------------------------------------------------------------------------
(* Entry: frozen, compared and hashed over its four fields *)

Entry(phon, sem) == [phon |-> phon, feat |-> {}, sem |-> sem, gloss |-> ""]

E_empty == Entry(<<>>, "")
E_a1    == Entry(<<"a">>, "1")
E_a2    == Entry(<<"a">>, "2")
E_b     == Entry(<<"b">>, "")
E_ab    == Entry(<<"a", "b">>, "")

\* the Entries the callers of the model hand in
Entries == {E_empty, E_a1, E_a2, E_b, E_ab}
\* the Entries that occur in batches
BatchEntries == {E_empty, E_a1, E_ab}
\* the query strings the callers ask for
Queries == {<<>>, <<"a">>, <<"b">>, <<"a", "b">>, <<"a", "c">>, <<"a", "b", "b">>}

Batches == UNION {[1..n -> BatchEntries] : n \in 0..MaxBatch}

----------------------------------------------------------------------------
(* pygtrie.CharTrie, as far as the classes use it *)

\* pygtrie.CharTrie(): no key
CharTrie == [k \in {} |-> {}]

\* trie[key] = value
TrieSet(trie, key, value) ==
  [k \in (DOMAIN trie) \cup {key} |-> IF k = key THEN value ELSE trie[k]]

\* every Entry some key holds: what chaining the trie's values yields
StoredEntries(trie) == UNION {trie[k] : k \in DOMAIN trie}

----------------------------------------------------------------------------
(* Model: the store *)

\* a _add that forgets the homophones: the key's set is overwritten
AddOverwriting(trie, entry) == TrieSet(trie, entry.phon, {entry})

\* Model._add
Model__add(trie, entry) ==
  IF entry.phon \notin DOMAIN trie
    THEN TrieSet(trie, entry.phon, {entry})
    ELSE TrieSet(trie, entry.phon, trie[entry.phon] \cup {entry})

\* Model.populate (the static default): yields its argument
Model_populate(entry) == <<entry>>

\* the classes a Model instance is made from: Model, and a subclass
\* ExtModel that overrides populate, as a model directory's mod.py holds it
Classes == {"Model", "ExtModel"}

\* ExtModel.populate: a one-letter Entry gets an allomorph with a suffix
ExtModel_populate(entry) ==
  IF Len(entry.phon) = 1
    THEN <<entry, [entry EXCEPT !.phon = @ \o <<"b">>]>>
    ELSE <<entry>>

\* FailingModel, a subclass whose populate yields its argument and then
\* raises for a phon of more than one letter: what it yields
FailingModel_populate(entry) == <<entry>>

\* self.populate(entry): the populate of the instance's class, as far as it
\* yields
populate(cls, entry) ==
  IF cls = "ExtModel" THEN ExtModel_populate(entry)
  ELSE IF cls = "FailingModel" THEN FailingModel_populate(entry)
  ELSE Model_populate(entry)

\* the generator self.populate(entry) raises after what it yielded
populate_raises(cls, entry) == cls = "FailingModel" /\ Len(entry.phon) > 1

\* a loop that stops after the first element of entries
AddFirstOnly(trie, entries) ==
  IF entries = <<>> THEN trie ELSE Model__add(trie, Head(entries))

\* for entry in entries: self._add(entry)
RECURSIVE AddAll(_, _)
AddAll(trie, entries) ==
  IF entries = <<>> THEN trie
  ELSE AddAll(Model__add(trie, Head(entries)), Tail(entries))

\* itertools.chain.from_iterable(map(self.populate, entries))
\* up to the first generator that raises, what it yielded included
RECURSIVE ChainPopulate(_, _)
ChainPopulate(cls, entries) ==
  IF entries = <<>> THEN <<>>
  ELSE IF populate_raises(cls, Head(entries)) THEN populate(cls, Head(entries))
  ELSE populate(cls, Head(entries)) \o ChainPopulate(cls, Tail(entries))

\* one of the generators of the chain raises
ChainRaises(cls, entries) ==
  \E i \in 1..Len(entries) : populate_raises(cls, entries[i])

\* an lru_cache that holds nothing
EmptyCache == [q \in {} |-> {}]

\* a clear_caches that clears nothing
KeepCache(cache) == cache

\* Model.clear_caches: tokenize.cache_clear(), which empties the lru_cache of
\* the class, the results of every instance with it
Model_clear_caches(cache) == EmptyCache

----------------------------------------------------------------------------
(* Model.tokenize, with the lru_cache in front of every call *)

\* what a call of tokenize comes back with: the value or the exception,
\* the cache as the call leaves it, the recursive calls made below it as
\* pairs (argument of the caller, argument of the call), and the arguments
\* the body was run for, each with the number of its runs
Returned(val, cache) ==
  [raised |-> FALSE, val |-> val, cache |-> cache, calls |-> {}, ran |-> EmptyBag]
Raised(cache) ==
  [raised |-> TRUE, val |-> {}, cache |-> cache, calls |-> {}, ran |-> EmptyBag]

\* a result with the calls and the runs of the calls below it added
WithCalls(res, calls, ran) ==
  [res EXCEPT !.calls = @ \cup calls, !.ran = @ (+) ran]

RECURSIVE tokenize_call(_, _, _, _)
RECURSIVE tokenize_body(_, _, _, _, _, _)

\* the body of tokenize from the k-th prefix on: prefixes(req) walks the
\* keys that are prefixes of req, shortest first; acc holds what the
\* prefixes before k contributed
tokenize_body(trie, cache, req, depth, k, acc) ==
  IF k > Len(req) THEN Returned(acc, cache)
  ELSE
    LET prefix == SubSeq(req, 1, k)
        remainder == SubSeq(req, k + 1, Len(req))
    IN IF prefix \notin DOMAIN trie
         THEN tokenize_body(trie, cache, req, depth, k + 1, acc)
       ELSE IF remainder = <<>>
         THEN tokenize_body(trie, cache, req, depth, k + 1,
                            acc \cup {<<e>> : e \in trie[prefix]})
       ELSE
         LET sub == tokenize_call(trie, cache, remainder, depth + 1)
             made == {<<req, remainder>>} \cup sub.calls
         IN IF sub.raised THEN WithCalls(Raised(sub.cache), made, sub.ran)
            ELSE WithCalls(
                   tokenize_body(trie, sub.cache, req, depth, k + 1,
                     acc \cup {<<e>> \o s : e \in trie[prefix], s \in sub.val}),
                   made, sub.ran)

\* self.tokenize(req): a cached result is returned as it is, anything else
\* runs the body and is cached when the body returns
tokenize_call(trie, cache, req, depth) ==
  IF req \in DOMAIN cache THEN Returned(cache[req], cache)
  ELSE IF depth > RecursionLimit THEN Raised(cache)
  ELSE
    LET body == tokenize_body(trie, cache, req, depth, 0, {})
        run == SetToBag({req})
    IN IF body.raised THEN WithCalls(body, {}, run)
       ELSE WithCalls(Returned(body.val, TrieSet(body.cache, req, body.val)),
                      body.calls, body.ran (+) run)

----------------------------------------------------------------------------
(* Model: the calls *)

NoRet == [raised |-> FALSE, val |-> {}]

\* what a mutator returns (None), with the number of calls of clear_caches
\* it made on its way
Done(clears) == [raised |-> FALSE, val |-> {}, clears |-> clears]

\* what a mutator that let an exception through comes back with: it has
\* not reached its call of clear_caches
Failed == [raised |-> TRUE, val |-> {}, clears |-> 0]

Call(op, arg, ret) == [op |-> op, arg |-> arg, pre |-> m_entries, ret |-> ret]

Model_add_raw(entry) ==
  /\ m_entries' = Model__add(m_entries, entry)
  /\ m_cache' = Model_clear_caches(m_cache)
  /\ b_cache' = Model_clear_caches(b_cache)
  /\ m_last' = Call("add_raw", entry, Done(1))
  /\ UNCHANGED m_frame

Model_add_raw_batch(entries) ==
  /\ m_entries' = AddAll(m_entries, entries)
  /\ m_cache' = Model_clear_caches(m_cache)
  /\ b_cache' = Model_clear_caches(b_cache)
  /\ m_last' = Call("add_raw_batch", entries, Done(1))
  /\ UNCHANGED m_frame

\* an add that stores its argument and leaves populate out
AddUnpopulated(entry) ==
  /\ m_entries' = Model__add(m_entries, entry)
  /\ m_cache' = Model_clear_caches(m_cache)
  /\ b_cache' = Model_clear_caches(b_cache)
  /\ m_last' = Call("add", entry, Done(1))
  /\ UNCHANGED m_frame

\* the loop stores what populate yields; an exception of populate leaves
\* the method before clear_caches
Model_add(entry) ==
  /\ m_entries' = AddAll(m_entries, populate(m_cls, entry))
  /\ IF populate_raises(m_cls, entry)
       THEN /\ UNCHANGED <<m_cache, b_cache>>
            /\ m_last' = Call("add", entry, Failed)
       ELSE /\ m_cache' = Model_clear_caches(m_cache)
            /\ b_cache' = Model_clear_caches(b_cache)
            /\ m_last' = Call("add", entry, Done(1))
  /\ UNCHANGED m_frame

Model_add_batch(entries) ==
  /\ m_entries' = AddAll(m_entries, ChainPopulate(m_cls, entries))
  /\ IF ChainRaises(m_cls, entries)
       THEN /\ UNCHANGED <<m_cache, b_cache>>
            /\ m_last' = Call("add_batch", entries, Failed)
       ELSE /\ m_cache' = Model_clear_caches(m_cache)
            /\ b_cache' = Model_clear_caches(b_cache)
            /\ m_last' = Call("add_batch", entries, Done(1))
  /\ UNCHANGED m_frame

\* a delete that drops the key's whole set, homophones included
DeleteWholeKey(entry) ==
  /\ IF entry.phon \in DOMAIN m_entries
       THEN /\ m_entries' = TrieSet(m_entries, entry.phon, {})
            /\ m_cache' = Model_clear_caches(m_cache)
            /\ b_cache' = Model_clear_caches(b_cache)
            /\ m_last' = Call("delete", entry, Done(1))
       ELSE /\ UNCHANGED <<m_entries, m_cache, b_cache>>
            /\ m_last' = Call("delete", entry, Done(0))
  /\ UNCHANGED m_frame

Model_delete(entry) ==
  /\ IF entry.phon \in DOMAIN m_entries
       THEN /\ m_entries' = TrieSet(m_entries, entry.phon,
                                    m_entries[entry.phon] \ {entry})
            /\ m_cache' = Model_clear_caches(m_cache)
            /\ b_cache' = Model_clear_caches(b_cache)
            /\ m_last' = Call("delete", entry, Done(1))
       ELSE /\ UNCHANGED <<m_entries, m_cache, b_cache>>
            /\ m_last' = Call("delete", entry, Done(0))
  /\ UNCHANGED m_frame

Model_tokenize(req) ==
  LET r == tokenize_call(m_entries, m_cache, req, 0)
  IN /\ m_cache' = r.cache
     /\ UNCHANGED <<m_entries, b_cache>>
     /\ m_last' = Call("tokenize", req, [raised |-> r.raised, val |-> r.val])
     /\ UNCHANGED m_frame

----------------------------------------------------------------------------
(* Model: the calls on the second instance *)

\* add_raw on the second instance; clear_caches empties the cache of the
\* class, the results of the first instance with it
B_add_raw(entry) ==
  /\ b_entries' = Model__add(b_entries, entry)
  /\ b_cache' = Model_clear_caches(b_cache)
  /\ m_cache' = Model_clear_caches(m_cache)
  /\ UNCHANGED <<m_entries, m_last, m_cls, d_vars, u>>

\* tokenize on the second instance: the keys of the cache hold self, so
\* the call reads and fills what the cache holds for this instance
B_tokenize(req) ==
  LET r == tokenize_call(b_entries, b_cache, req, 0)
  IN /\ b_cache' = r.cache
     /\ UNCHANGED <<b_entries, m_entries, m_cache, m_last, m_cls, d_vars, u>>

----------------------------------------------------------------------------
(* Model and Entry in YAML *)

\* the keys of a feat, a set of (key, value) pairs
FeatKeys(pairs) == {p[1] : p \in pairs}

\* dict(node.feat): a dict holds one value per key, of the pairs with one
\* key the pair the set yields last; the dicts a set of pairs can give
py_dict(pairs) ==
  {f \in [FeatKeys(pairs) -> {p[2] : p \in pairs}] :
     \A k \in FeatKeys(pairs) : <<k, f[k]>> \in pairs}

\* Entry.to_yaml: the mappings an Entry can be written as
Entry_to_yaml(entry) ==
  {[phon |-> entry.phon, feat |-> f, sem |-> entry.sem, gloss |-> entry.gloss] :
     f \in py_dict(entry.feat)}

\* Entry.from_yaml: feat becomes frozenset(dict_actual["feat"].items())
Entry_from_yaml(mapping) ==
  [phon |-> mapping.phon,
   feat |-> {<<k, mapping.feat[k]>> : k \in DOMAIN mapping.feat},
   sem |-> mapping.sem,
   gloss |-> mapping.gloss]

\* list(node) written Entry by Entry: the contents a set of Entries can be
\* written as (the order of the list does not reach the trie)
RECURSIVE YamlContents(_)
YamlContents(entries) ==
  IF entries = {} THEN {{}}
  ELSE LET e == CHOOSE x \in entries : TRUE
       IN {c \cup {y} : c \in YamlContents(entries \ {e}), y \in Entry_to_yaml(e)}

\* Model.to_yaml: the documents a Model can be written as
Model_to_yaml(trie) ==
  {[version |-> 0, content |-> c] : c \in YamlContents(StoredEntries(trie))}

\* the elements of a set, one after the other
RECURSIVE ListOf(_)
ListOf(set) ==
  IF set = {} THEN <<>>
  ELSE LET x == CHOOSE y \in set : TRUE IN <<x>> \o ListOf(set \ {x})

\* Model.from_yaml: res = cls(); res.add_batch(dict_actual["content"])
Model_from_yaml(cls, doc) ==
  AddAll(CharTrie,
         ChainPopulate(cls, ListOf({Entry_from_yaml(y) : y \in doc.content})))

\* a Model written with to_yaml and read again with from_yaml; the
\* add_batch of the Model that is read clears the cache of the class
Model_yaml_round_trip(doc) ==
  /\ doc \in Model_to_yaml(m_entries)
  /\ UNCHANGED m_entries
  /\ m_cache' = Model_clear_caches(m_cache)
  /\ b_cache' = Model_clear_caches(b_cache)
  /\ m_last' = Call("round_trip", doc,
                    [raised |-> FALSE, val |-> {},
                     loaded |-> Model_from_yaml(m_cls, doc)])
  /\ UNCHANGED m_frame

----------------------------------------------------------------------------
(* Model: the read accessors *)

\* the builtin iter(*args): with no argument it raises TypeError
py_iter(args) ==
  IF Len(args) = 0 THEN [raised |-> "TypeError", val |-> {}]
  ELSE [raised |-> "", val |-> args[1]]

\* Model.__getitem__: iter(self._entries.get(key, iter())); the default
\* iter() is evaluated before get is called
Model__getitem__(trie, key) ==
  LET default == py_iter(<<>>)
  IN IF default.raised # "" THEN default
     ELSE py_iter(<<IF key \in DOMAIN trie THEN trie[key] ELSE default.val>>)

\* Model.__len__: len(self._entries), the trie's number of keys
Model__len__(trie) == Cardinality(DOMAIN trie)

\* Model.keys
Model_keys(trie) == DOMAIN trie

\* Model.__iter__: chains the sets the keys hold; the number of Entries
\* it yields over the keys in ks
RECURSIVE IterCount(_, _)
IterCount(trie, ks) ==
  IF ks = {} THEN 0
  ELSE LET k == CHOOSE x \in ks : TRUE
       IN Cardinality(trie[k]) + IterCount(trie, ks \ {k})

Model__iter__(trie) ==
  [count |-> IterCount(trie, DOMAIN trie), entries |-> StoredEntries(trie)]

----------------------------------------------------------------------------
(* Dictionary (src/pymor.py): the store *)

\* the module's global e: the loop variable of "for e in entries: d.add(e)"
\* keeps the last element of the module's list entries
GlobalE == Entry(<<"t", "a">>, "field")

\* a _add that files an Entry under the first letter of its phon
AddUnderFirstLetter(trie, entry) ==
  LET key == SubSeq(entry.phon, 1, 1)
  IN IF key \notin DOMAIN trie
       THEN TrieSet(trie, key, {entry})
       ELSE TrieSet(trie, key, trie[key] \cup {entry})

\* Dictionary._add
Dictionary__add(trie, entry) ==
  IF entry.phon \notin DOMAIN trie
    THEN TrieSet(trie, entry.phon, {entry})
    ELSE TrieSet(trie, entry.phon, trie[entry.phon] \cup {entry})

\* for entry in entries: self._add(entry)
RECURSIVE DictAddAll(_, _)
DictAddAll(trie, entries) ==
  IF entries = <<>> THEN trie
  ELSE DictAddAll(Dictionary__add(trie, Head(entries)), Tail(entries))

\* an lru_cache of match that holds nothing
EmptyMatchCache == [q \in {} |-> "fresh"]

\* self.match.cache_clear()
match_cache_clear(cache) == EmptyMatchCache

----------------------------------------------------------------------------
(* Dictionary.match: the lru_cache holds the iterator object match returned, *)
(* which is fresh, running (being drained) or exhausted                     *)

\* self.match(req) through the lru_cache: the cached iterator, or a new one
match_call(cache, req) ==
  IF req \in DOMAIN cache THEN cache ELSE TrieSet(cache, req, "fresh")

\* merge_product over itertools.product(entries, subsequents): entry put in
\* front of every sequence the drained iterator yielded
Prepended(entries, subs) ==
  [x \in {<<entry>> \o s : entry \in entries, s \in DOMAIN subs} |-> subs[Tail(x)]]

\* (collections.deque((e, )) for entry in entries): one deque per entry,
\* each holding the global e
EndOfQuery(entries) ==
  IF entries = {} THEN EmptyBag
  ELSE [x \in {<<GlobalE>>} |-> Cardinality(entries)]

RECURSIVE match_drain(_, _, _)
RECURSIVE match_body(_, _, _, _, _)

\* the chain over match_single_prefix from the k-th prefix on
match_body(trie, cache, req, k, acc) ==
  IF k > Len(req) THEN [raised |-> "", out |-> acc, cache |-> cache]
  ELSE
    LET prefix == SubSeq(req, 1, k)
        remainder == SubSeq(req, k + 1, Len(req))
    IN IF prefix \notin DOMAIN trie
         THEN match_body(trie, cache, req, k + 1, acc)
       ELSE IF remainder = <<>>
         THEN match_body(trie, cache, req, k + 1, acc (+) EndOfQuery(trie[prefix]))
       ELSE
         LET sub == match_drain(trie, match_call(cache, remainder), remainder)
         IN IF sub.raised # ""
              THEN [raised |-> sub.raised, out |-> acc, cache |-> sub.cache]
              ELSE match_body(trie, sub.cache, req, k + 1,
                              acc (+) Prepended(trie[prefix], sub.out))

\* draining the iterator the cache holds for req: an exhausted one yields
\* nothing, one that is being drained raises ValueError (generator already
\* executing), and either way the iterator is exhausted afterwards
match_drain(trie, cache, req) ==
  IF cache[req] = "exhausted"
    THEN [raised |-> "", out |-> EmptyBag, cache |-> cache]
  ELSE IF cache[req] = "running"
    THEN [raised |-> "ValueError", out |-> EmptyBag, cache |-> cache]
  ELSE
    LET body == match_body(trie, TrieSet(cache, req, "running"), req, 0, EmptyBag)
    IN [raised |-> body.raised, out |-> body.out,
        cache |-> TrieSet(body.cache, req, "exhausted")]

----------------------------------------------------------------------------
(* Dictionary: the calls *)

DictNoRet == [raised |-> "", out |-> EmptyBag]

\* what a mutator returns (None), with the number of calls of
\* match.cache_clear it made on its way
DictDone(clears) == [raised |-> "", out |-> EmptyBag, clears |-> clears]

DictCall(op, arg, ret) ==
  [op |-> op, arg |-> arg, pre |-> d_entries, ret |-> ret]

NothingSeen == [q \in {} |-> DictNoRet]

Dictionary_add(entry) ==
  /\ d_entries' = Dictionary__add(d_entries, entry)
  /\ d_cache' = match_cache_clear(d_cache)
  /\ d_seen' = NothingSeen
  /\ d_last' = DictCall("add", entry, DictDone(1))
  /\ UNCHANGED d_frame

Dictionary_batchadd(entries) ==
  /\ d_entries' = DictAddAll(d_entries, entries)
  /\ d_cache' = match_cache_clear(d_cache)
  /\ d_seen' = NothingSeen
  /\ d_last' = DictCall("batchadd", entries, DictDone(1))
  /\ UNCHANGED d_frame

Dictionary_delete(entry) ==
  /\ IF entry.phon \in DOMAIN d_entries
       THEN /\ d_entries' = TrieSet(d_entries, entry.phon,
                                    d_entries[entry.phon] \ {entry})
            /\ d_cache' = match_cache_clear(d_cache)
            /\ d_seen' = NothingSeen
            /\ d_last' = DictCall("delete", entry, DictDone(1))
       ELSE /\ UNCHANGED <<d_entries, d_cache, d_seen>>
            /\ d_last' = DictCall("delete", entry, DictDone(0))
  /\ UNCHANGED d_frame

\* for res in d.match(req): ... : the call and the draining of what it returns
Dictionary_match(req) ==
  LET r == match_drain(d_entries, match_call(d_cache, req), req)
      ret == [raised |-> r.raised, out |-> r.out]
  IN /\ d_cache' = r.cache
     /\ UNCHANGED d_entries
     /\ d_seen' = IF req \in DOMAIN d_seen THEN d_seen ELSE TrieSet(d_seen, req, ret)
     /\ d_last' = DictCall("match", req, ret)
     /\ UNCHANGED d_frame

----------------------------------------------------------------------------
(* Dictionary.modify and Dictionary.populate: the functions handed to them *)

\* d = Dictionary(name = "test")
DictName == "test"

\* the functions Entry -> Set[Entry] the callers hand in: the identity, the
\* driver's populate (an Entry gets an allomorph beside it), one that moves
\* an Entry to another phon, and one that raises for an Entry
Funcs == {"identity", "allomorph", "rename", "failing"}

\* func(entry): the set it returns, or the exception it raises
func_apply(func, entry) ==
  IF func = "allomorph" /\ entry = E_a1
    THEN [raised |-> "", val |-> {E_a1, E_a2}]
  ELSE IF func = "rename" /\ entry = E_b
    THEN [raised |-> "", val |-> {E_ab}]
  ELSE IF func = "failing" /\ entry = E_b
    THEN [raised |-> "FuncError", val |-> {}]
  ELSE [raised |-> "", val |-> {entry}]

\* the orders in which chaining the values of a trie yields its Entries:
\* every Entry once, the Entries of one key next to each other
IterOrders(trie) ==
  LET all == StoredEntries(trie)
      n == Cardinality(all)
  IN {o \in [1..n -> all] :
        /\ \A i, j \in 1..n : o[i] = o[j] => i = j
        /\ \A i, j, k \in 1..n :
             (i < j /\ j < k /\ o[i].phon = o[k].phon) => o[j].phon = o[i].phon}

\* for new_entry in a set: self.add(new_entry), as far as the store goes
RECURSIVE DictAddSet(_, _)
DictAddSet(trie, entries) ==
  IF entries = {} THEN trie
  ELSE LET e == CHOOSE x \in entries : TRUE
       IN DictAddSet(Dictionary__add(trie, e), entries \ {e})

\* a loop of modify that keeps every old Entry beside what func returns
RECURSIVE ModifyKeepingOld(_, _, _)
ModifyKeepingOld(st, func, order) ==
  IF order = <<>> THEN st
  ELSE
    LET r == func_apply(func, Head(order))
    IN IF r.raised # "" THEN [st EXCEPT !.raised = r.raised]
       ELSE ModifyKeepingOld(
              [st EXCEPT !.trie = DictAddSet(@, r.val \cup {Head(order)})],
              func, Tail(order))

\* the loop of modify over the old Entries that are left: func is called
\* with the next old Entry while self._entries is st.trie (st.seen collects
\* what func can read there), and each Entry of the set it returns goes
\* through self.add, which clears the cache of match; an exception of func
\* ends the loop and leaves self._entries as it is then
RECURSIVE modify_loop(_, _, _)
modify_loop(st, func, order) ==
  IF order = <<>> THEN st
  ELSE
    LET seen == st.seen \cup {st.trie}
        r == func_apply(func, Head(order))
    IN IF r.raised # ""
         THEN [st EXCEPT !.seen = seen, !.raised = r.raised]
         ELSE modify_loop([trie |-> DictAddSet(st.trie, r.val),
                           seen |-> seen,
                           clears |-> st.clears + Cardinality(r.val),
                           raised |-> ""],
                          func, Tail(order))

\* Dictionary.modify: self._entries = pygtrie.CharTrie(), match.cache_clear(),
\* then the loop
Dictionary_modify(func, order) ==
  LET st == modify_loop([trie |-> CharTrie, seen |-> {}, clears |-> 1,
                         raised |-> ""], func, order)
  IN /\ d_entries' = st.trie
     /\ d_cache' = match_cache_clear(d_cache)
     /\ d_seen' = NothingSeen
     /\ d_last' = DictCall("modify", func,
                           [raised |-> st.raised, out |-> EmptyBag,
                            clears |-> st.clears, seen |-> st.seen])
     /\ UNCHANGED d_frame

\* a Python set handed to a parameter that is annotated as Entry
PySet(items) == [kind |-> "set", items |-> items]

\* no Dictionary: what a call that raised has returned
NoDictionary == [name |-> "", entries |-> CharTrie]

\* the loop of Dictionary.__init__ over entries = map(func, iter(self)):
\* the next item is what func returns for the next Entry of the source, a
\* set, and self.add(item) reads item.phon in _add (AttributeError for an
\* object that has no phon) before anything is stored; an add that comes
\* through clears the cache of match, the one lru_cache of the class
RECURSIVE populate_loop(_, _, _)
populate_loop(st, func, order) ==
  IF order = <<>> THEN st
  ELSE
    LET r == func_apply(func, Head(order))
        item == PySet(r.val)
    IN IF r.raised # "" THEN [st EXCEPT !.raised = r.raised]
       ELSE IF "phon" \notin DOMAIN item
         THEN [st EXCEPT !.raised = "AttributeError"]
       ELSE populate_loop([trie |-> Dictionary__add(st.trie, item),
                           cache |-> match_cache_clear(st.cache),
                           raised |-> ""],
                          func, Tail(order))

\* a populate that rewrites the source and returns it
PopulateOnSelf(func, order) ==
  LET st == modify_loop([trie |-> CharTrie, seen |-> {}, clears |-> 1,
                         raised |-> ""], func, order)
  IN /\ d_entries' = st.trie
     /\ d_cache' = match_cache_clear(d_cache)
     /\ d_seen' = NothingSeen
     /\ d_last' = DictCall("populate", func,
                           [raised |-> st.raised, out |-> EmptyBag,
                            new |-> [name |-> DictName, entries |-> st.trie],
                            cache_pre |-> d_cache])
     /\ UNCHANGED d_frame

\* Dictionary.populate: Dictionary(name = self.name,
\* entries = map(func, iter(self))); the source is only iterated
Dictionary_populate(func, order) ==
  LET st == populate_loop([trie |-> CharTrie, cache |-> d_cache,
                           raised |-> ""], func, order)
  IN /\ UNCHANGED d_entries
     /\ d_cache' = st.cache
     /\ d_seen' = IF st.cache = d_cache THEN d_seen ELSE NothingSeen
     /\ d_last' = DictCall("populate", func,
                           [raised |-> st.raised, out |-> EmptyBag,
                            new |-> IF st.raised = ""
                                      THEN [name |-> DictName, entries |-> st.trie]
                                      ELSE NoDictionary,
                            cache_pre |-> d_cache])
     /\ UNCHANGED d_frame

----------------------------------------------------------------------------
(* merge and union of lexicons, which the loaders call on the class *)

\* a merge in which the set of other replaces the set of self under a key
MergeOverwriting(self, other) ==
  [k \in (DOMAIN self) \cup (DOMAIN other) |->
     IF k \in DOMAIN other THEN other[k] ELSE self[k]]

\* merge(other): the Entries of other are united into self, key by key
Lexicon_merge(self, other) ==
  [k \in (DOMAIN self) \cup (DOMAIN other) |->
     (IF k \in DOMAIN self THEN self[k] ELSE {})
       \cup (IF k \in DOMAIN other THEN other[k] ELSE {})]

\* union(lexicons..., name): a fresh lexicon that holds the Entries of all
\* the lexicons given
RECURSIVE Lexicon_union_from(_, _)
Lexicon_union_from(fresh, lexicons) ==
  IF lexicons = <<>> THEN fresh
  ELSE Lexicon_union_from(Lexicon_merge(fresh, Head(lexicons)), Tail(lexicons))

Lexicon_union(lexicons) == Lexicon_union_from(CharTrie, lexicons)

\* AB = union(A, B)
union_AB ==
  /\ DOMAIN u.lex = {"A", "B", "C"} \/ DOMAIN u.lex = {"A", "B", "C", "ABC"}
  /\ u' = [u EXCEPT !.lex = TrieSet(@, "AB", Lexicon_union(<<@["A"], @["B"]>>))]
  /\ UNCHANGED <<m_vars, d_vars>>

\* AB.merge(C): the receiver AB is the one lexicon that changes
merge_C ==
  /\ "AB" \in DOMAIN u.lex
  /\ ~u.merged
  /\ u' = [u EXCEPT !.lex = TrieSet(@, "AB", Lexicon_merge(@["AB"], @["C"])),
                    !.merged = TRUE]
  /\ UNCHANGED <<m_vars, d_vars>>

\* load_model_dir / load_dir: the lexicons the documents of the directory
\* give (here A, B, C) go through the union of the class
load_model_dir ==
  /\ DOMAIN u.lex = {"A", "B", "C"} \/ DOMAIN u.lex = {"A", "B", "C", "AB"}
  /\ u' = [u EXCEPT !.lex = TrieSet(@, "ABC",
                      Lexicon_union(<<@["A"], @["B"], @["C"]>>))]
  /\ UNCHANGED <<m_vars, d_vars>>

----------------------------------------------------------------------------
(* The specifications *)

\* Model(): two instances, nothing stored, nothing cached
InitModel ==
  /\ m_entries = CharTrie
  /\ m_cache = EmptyCache
  /\ m_last = [op |-> "init", arg |-> <<>>, pre |-> CharTrie, ret |-> NoRet]
  /\ b_entries = CharTrie
  /\ b_cache = EmptyCache

\* Dictionary(name = "test")
InitDictionary ==
  /\ d_entries = CharTrie
  /\ d_cache = EmptyMatchCache
  /\ d_seen = NothingSeen
  /\ d_last = [op |-> "init", arg |-> <<>>, pre |-> CharTrie, ret |-> DictNoRet]

\* no lexicon to merge
NoLexicons == [lex |-> [n \in {} |-> CharTrie], made |-> [n \in {} |-> CharTrie],
               merged |-> FALSE]

Init ==
  /\ InitModel
  /\ m_cls = "Model"
  /\ InitDictionary
  /\ u = NoLexicons

\* a Model and the calls made on it
Next ==
  \/ \E entry \in Entries : Model_add_raw(entry)
  \/ \E entries \in Batches : Model_add_raw_batch(entries)
  \/ \E entry \in Entries : Model_add(entry)
  \/ \E entries \in Batches : Model_add_batch(entries)
  \/ \E entry \in Entries : Model_delete(entry)
  \/ \E req \in Queries : Model_tokenize(req)

\* a Dictionary and the calls made on it
DictNext ==
  \/ \E entry \in Entries : Dictionary_add(entry)
  \/ \E entries \in Batches : Dictionary_batchadd(entries)
  \/ \E entry \in Entries : Dictionary_delete(entry)
  \/ \E req \in Queries : Dictionary_match(req)

\* the Entries and the strings of the callers that rewrite a Dictionary
RewriteEntries == {E_a1, E_a2, E_b, E_ab}
RewriteQueries == {<<"a">>, <<"a", "b">>}

\* a Dictionary that is rewritten (modify) and derived from (populate)
RewriteNext ==
  \/ \E entry \in RewriteEntries : Dictionary_add(entry)
  \/ \E entry \in RewriteEntries : Dictionary_delete(entry)
  \/ \E req \in RewriteQueries : Dictionary_match(req)
  \/ \E func \in Funcs, order \in IterOrders(d_entries) :
       Dictionary_modify(func, order)
  \/ \E func \in Funcs, order \in IterOrders(d_entries) :
       Dictionary_populate(func, order)

\* an Entry with features, and one whose feat holds two values for a key
E_f   == [phon |-> <<"a", "b">>, feat |-> {<<"scat", "NP">>}, sem |-> "", gloss |-> ""]
E_dup == [phon |-> <<"b">>, feat |-> {<<"scat", "NP">>, <<"scat", "VP">>},
          sem |-> "", gloss |-> ""]

\* the Entries and batches handed to a Model of either class
ExtEntries == {E_a1, E_b, E_ab, E_f, E_dup}
ExtBatches == UNION {[1..n -> {E_a1, E_ab}] : n \in 0..MaxBatch}

InitExt ==
  /\ InitModel
  /\ m_cls \in Classes
  /\ InitDictionary
  /\ u = NoLexicons

\* a Model of either class that is filled, written and read again
NextExt ==
  \/ \E entry \in ExtEntries : Model_add_raw(entry)
  \/ \E entries \in ExtBatches : Model_add_raw_batch(entries)
  \/ \E entry \in ExtEntries : Model_add(entry)
  \/ \E entries \in ExtBatches : Model_add_batch(entries)
  \/ \E entry \in ExtEntries : Model_delete(entry)
  \/ \E doc \in Model_to_yaml(m_entries) : Model_yaml_round_trip(doc)

\* the Entries, batches and strings of the callers of two Models
TwoEntries == {E_a1, E_b}
TwoBatches == UNION {[1..n -> {E_b}] : n \in 0..MaxBatch}
TwoQueries == {<<"a">>, <<"a", "b">>}

\* two instances of Model and the calls made on them
NextTwo ==
  \/ \E entry \in TwoEntries : Model_add_raw(entry)
  \/ \E entries \in TwoBatches : Model_add_raw_batch(entries)
  \/ \E entry \in TwoEntries : Model_add(entry)
  \/ \E entries \in TwoBatches : Model_add_batch(entries)
  \/ \E entry \in TwoEntries : Model_delete(entry)
  \/ \E req \in TwoQueries : Model_tokenize(req)
  \/ \E entry \in TwoEntries : B_add_raw(entry)
  \/ \E req \in TwoQueries : B_tokenize(req)

\* the lexicons the documents give: disjoint ones, overlapping ones, ones
\* with homophones, empty ones
UnionStores ==
  {AddAll(CharTrie, ListOf(es)) : es \in SUBSET {E_a1, E_a2, E_b}}

InitUnion ==
  /\ InitModel
  /\ m_cls = "Model"
  /\ InitDictionary
  /\ \E f \in [{"A", "B", "C"} -> UnionStores] :
       u = [lex |-> f, made |-> f, merged |-> FALSE]

\* three lexicons that are united in two ways
NextUnion ==
  \/ union_AB
  \/ merge_C
  \/ load_model_dir

\* the Entries, batches and strings of the callers of a FailingModel
HookEntries == {E_a1, E_b, E_ab}
HookBatches == UNION {[1..n -> {E_b, E_ab}] : n \in 0..MaxBatch}
HookQueries == {<<"b">>, <<"a", "b">>}

InitHook ==
  /\ InitModel
  /\ m_cls = "FailingModel"
  /\ InitDictionary
  /\ u = NoLexicons

\* a Model of a class whose populate raises, and the calls made on it
NextHook ==
  \/ \E entry \in HookEntries : Model_add_raw(entry)
  \/ \E entry \in HookEntries : Model_add(entry)
  \/ \E entries \in HookBatches : Model_add_batch(entries)
  \/ \E entry \in HookEntries : Model_delete(entry)
  \/ \E req \in HookQueries : Model_tokenize(req)

Spec == Init /\ [][Next]_vars

SpecHook == InitHook /\ [][NextHook]_vars

SpecUnion == InitUnion /\ [][NextUnion]_vars

SpecTwo == Init /\ [][NextTwo]_vars

SpecExt == InitExt /\ [][NextExt]_vars

SpecRewrite == Init /\ [][RewriteNext]_vars

SpecDict == Init /\ [][DictNext]_vars

----------------------------------------------------------------------------
(* What the claims speak of *)

\* e1.phon + e2.phon + ... + en.phon
RECURSIVE ConcatPhon(_)
ConcatPhon(es) ==
  IF es = <<>> THEN <<>> ELSE Head(es).phon \o ConcatPhon(Tail(es))

\* a sequence of non-empty phons that spells query has at most Len(query)
\* elements, and the empty query is spelled by one empty phon or by nothing
SegLen(query) == IF Len(query) = 0 THEN 1 ELSE Len(query)

\* the sequences (e1, ..., en), n >= 1, of stored Entries that spell query
Segmentations(trie, query) ==
  {s \in UNION {[1..n -> StoredEntries(trie)] : n \in 1..SegLen(query)} :
     ConcatPhon(s) = query}

\* what tokenize(req) returns now: raised or not, and the value
Tokenized(req) ==
  LET r == tokenize_call(m_entries, m_cache, req, 0)
  IN [raised |-> r.raised, val |-> r.val]

\* what tokenize(req) returns when nothing is cached
Uncached(req) ==
  LET r == tokenize_call(m_entries, EmptyCache, req, 0)
  IN [raised |-> r.raised, val |-> r.val]

\* the store after add_raw(es[1]), add_raw(es[2]), ... made one by one
RECURSIVE AfterAddRaws(_, _)
AfterAddRaws(trie, es) ==
  IF es = <<>> THEN trie
  ELSE AfterAddRaws(Model__add(trie, Head(es)), Tail(es))

\* the store after add(es[1]), add(es[2]), ... of a Dictionary
RECURSIVE AfterDictAdds(_, _)
AfterDictAdds(trie, es) ==
  IF es = <<>> THEN trie
  ELSE AfterDictAdds(Dictionary__add(trie, Head(es)), Tail(es))

\* the elements of a sequence
Range(seq) == {seq[i] : i \in 1..Len(seq)}

AllPhonsNonEmpty(trie) == \A e \in StoredEntries(trie) : e.phon # <<>>

\* no Entry with an empty phon was ever put in the trie
NoEmptyKey(trie) == <<>> \notin DOMAIN trie

----------------------------------------------------------------------------
(* The claims *)

\* C1: whenever every stored Entry of the Model has a non-empty phon,
\* tokenize(query) returns, for every query, exactly the set of the
\* sequences of stored Entries whose phons concatenated give the query.
C1_TokenizeIsAllSegmentations ==
  AllPhonsNonEmpty(m_entries) =>
    \A q \in Queries :
      Tokenized(q) = [raised |-> FALSE, val |-> Segmentations(m_entries, q)]

\* What does hold for C1: the same, for a trie that has no empty key.
TokenizeIsAllSegmentationsWithoutEmptyKey ==
  NoEmptyKey(m_entries) =>
    \A q \in Queries :
      Tokenized(q) = [raised |-> FALSE, val |-> Segmentations(m_entries, q)]

\* C2: Dictionary.match yields each segmentation of the query once and
\* nothing else: with the phons a, ab, b stored, match("ab") yields the two
\* sequences (ab) and (a, b), and the last element of every sequence match
\* yields is an Entry that is stored. Stated for the Dictionaries that never
\* held an empty phon.
C2_MatchYieldsTheSegmentations ==
  (d_last.op = "match" /\ NoEmptyKey(d_entries)) =>
    /\ \A s \in DOMAIN d_last.ret.out : s[Len(s)] \in StoredEntries(d_entries)
    /\ ( /\ StoredEntries(d_entries) = {E_a1, E_b, E_ab}
         /\ d_last.arg = <<"a", "b">>
         /\ DOMAIN d_seen = {<<"a", "b">>} )
       => d_last.ret = [raised |-> "",
                        out |-> SetToBag({<<E_ab>>, <<E_a1, E_b>>})]

\* C3: every result the tokenize cache holds is the result computed from
\* nothing on the store as it is now, so that tokenize(q) returns what the
\* uncached computation returns.
C3_CacheNeverStale ==
  /\ \A q \in DOMAIN m_cache :
       Uncached(q) = [raised |-> FALSE, val |-> m_cache[q]]
  /\ \A q \in Queries : Tokenized(q) = Uncached(q)

\* C3 happens: a delete of an Entry whose phon is no key has left the
\* cache as it was, with a segmentation in it.
C3_Witness ==
  /\ m_last.op = "delete"
  /\ \E q \in DOMAIN m_cache : m_cache[q] # {}

\* C4: a match of a string that was matched before, with no mutation in
\* between, yields what the first match yielded. Stated for the
\* Dictionaries that never held an empty phon.
C4_MatchTwiceSame ==
  (d_last.op = "match" /\ NoEmptyKey(d_entries)) =>
    d_last.ret = d_seen[d_last.arg]

\* C5: an insertion of an Entry with an empty phon raises and leaves the
\* store as it was, and no store holds an Entry with an empty phon.
C5_EmptyPhonRejected ==
  /\ AllPhonsNonEmpty(m_entries)
  /\ (m_last.op \in {"add_raw", "add"} /\ m_last.arg.phon = <<>>) =>
       (m_last.ret.raised /\ m_entries = m_last.pre)

\* C6: tokenize(query) comes to an end for every query in every store the
\* mutators reach: the chain of nested calls never reaches the depth at
\* which the interpreter gives up.
C6_TokenizeTerminates ==
  \A q \in Queries : ~Tokenized(q).raised

\* C7: when no sequence of stored Entries spells the query, tokenize
\* returns the empty set and raises nothing.
C7_NoSegmentationIsEmpty ==
  \A q \in Queries :
    Segmentations(m_entries, q) = {} =>
      Tokenized(q) = [raised |-> FALSE, val |-> {}]

\* C8: model[k] returns the Entries stored with phon k, all the homophones
\* of k, and an empty collection when k is no key; it raises nothing.
\* Stated for the stores that hold two homophones and never held an empty
\* phon.
C8_GetItemReturnsStored ==
  (NoEmptyKey(m_entries) /\ \E k \in DOMAIN m_entries : Cardinality(m_entries[k]) = 2) =>
    \A k \in Queries :
      Model__getitem__(m_entries, k) =
        [raised |-> "",
         val |-> IF k \in DOMAIN m_entries THEN m_entries[k] ELSE {}]

\* C9: len(model) is the number of Entries the iteration of the model
\* yields. Stated for the stores that never held an empty phon.
C9_LenCountsEntries ==
  NoEmptyKey(m_entries) =>
    Model__len__(m_entries) = Model__iter__(m_entries).count

\* C10: add_raw(e) of an Entry that is stored leaves the store as it was;
\* add_raw(e) of one that is not stored adds e and nothing else, once: the
\* iteration yields one Entry more; so a second add_raw(e) changes nothing.
C10_AddRawSetSemantics ==
  m_last.op = "add_raw" =>
    LET e == m_last.arg
        pre == m_last.pre
    IN /\ e \in StoredEntries(pre) => m_entries = pre
       /\ StoredEntries(m_entries) = StoredEntries(pre) \cup {e}
       /\ e \in m_entries[e.phon]
       /\ Model__iter__(m_entries).count =
            Model__iter__(pre).count + (IF e \in StoredEntries(pre) THEN 0 ELSE 1)
       /\ Model__add(m_entries, e) = m_entries

\* C10 happens: add_raw of an Entry that was stored beside a homophone.
C10_Witness ==
  /\ m_last.op = "add_raw"
  /\ m_last.arg.phon \in DOMAIN m_last.pre
  /\ m_last.arg \in m_last.pre[m_last.arg.phon]
  /\ Cardinality(m_last.pre[m_last.arg.phon]) = 2

\* C10 for the Dictionary: add(e) of an Entry that is stored leaves the
\* store as it was, and add(e) stores e beside what was stored.
DictAddSetSemantics ==
  d_last.op = "add" =>
    /\ d_last.arg \in StoredEntries(d_last.pre) => d_entries = d_last.pre
    /\ StoredEntries(d_entries) = StoredEntries(d_last.pre) \cup {d_last.arg}
    /\ Dictionary__add(d_entries, d_last.arg) = d_entries

\* C11: add_raw_batch(es) leaves the store that add_raw of every element
\* of es, one after the other, leaves: what was stored and the elements of
\* es; and it clears the cache once, after the last element, so that the
\* cache is empty when it returns.
C11_BatchIsRepeatedSingle ==
  m_last.op = "add_raw_batch" =>
    /\ m_entries = AfterAddRaws(m_last.pre, m_last.arg)
    /\ StoredEntries(m_entries) = StoredEntries(m_last.pre) \cup Range(m_last.arg)
    /\ m_cache = EmptyCache
    /\ m_last.ret.clears = 1

\* C11 happens: a batch of two different Entries, the last of them new.
C11_Witness ==
  /\ m_last.op = "add_raw_batch"
  /\ Len(m_last.arg) = 2
  /\ m_last.arg[1] # m_last.arg[2]
  /\ m_last.arg[2] \notin StoredEntries(m_last.pre)

\* C11 for the Dictionary: batchadd(es) leaves the store that add of every
\* element leaves, and clears the cache of match once.
DictBatchIsRepeatedSingle ==
  d_last.op = "batchadd" =>
    /\ d_entries = AfterDictAdds(d_last.pre, d_last.arg)
    /\ StoredEntries(d_entries) = StoredEntries(d_last.pre) \cup Range(d_last.arg)
    /\ d_cache = EmptyMatchCache
    /\ d_last.ret.clears = 1

\* C12: delete(e) takes e out of the store and nothing else: the homophones
\* of e and the Entries under the other keys stay; when e is not stored,
\* whether its phon is a key or not, delete raises nothing and leaves the
\* store as it was.
C12_DeleteRemovesExactlyE ==
  m_last.op = "delete" =>
    LET e == m_last.arg
        pre == m_last.pre
    IN /\ ~m_last.ret.raised
       /\ StoredEntries(m_entries) = StoredEntries(pre) \ {e}
       /\ \A k \in DOMAIN pre : k # e.phon => m_entries[k] = pre[k]
       /\ e.phon \in DOMAIN pre => m_entries[e.phon] = pre[e.phon] \ {e}
       /\ e \notin StoredEntries(pre) => m_entries = pre

\* C12 happens: delete of an Entry that was stored beside a homophone.
C12_Witness ==
  /\ m_last.op = "delete"
  /\ m_last.arg.phon \in DOMAIN m_last.pre
  /\ m_last.arg \in m_last.pre[m_last.arg.phon]
  /\ Cardinality(m_last.pre[m_last.arg.phon]) = 2

\* C12 for the Dictionary: delete(e) takes e out of the store and nothing
\* else, and raises nothing.
DictDeleteRemovesExactlyE ==
  d_last.op = "delete" =>
    /\ d_last.ret.raised = ""
    /\ StoredEntries(d_entries) = StoredEntries(d_last.pre) \ {d_last.arg}
    /\ \A k \in DOMAIN d_last.pre :
         k # d_last.arg.phon => d_entries[k] = d_last.pre[k]

\* what func returns for the Entries of a store, put together
FuncImage(func, trie) ==
  UNION {func_apply(func, e).val : e \in StoredEntries(trie)}

\* func raises for no Entry of the store
FuncTotal(func, trie) ==
  \A e \in StoredEntries(trie) : func_apply(func, e).raised = ""

\* every Entry of the trie sits under the key that is its phon
KeyedByPhon(trie) == \A k \in DOMAIN trie : \A e \in trie[k] : e.phon = k

\* C13: modify(func) is atomic: what func can read in the Dictionary while
\* modify calls it, and what the caller finds after modify returned or func
\* raised, is the complete old set of Entries or the complete new one.
C13_ModifyIsAtomic ==
  d_last.op = "modify" =>
    LET old == StoredEntries(d_last.pre)
        complete == {old} \cup (IF FuncTotal(d_last.arg, d_last.pre)
                                  THEN {FuncImage(d_last.arg, d_last.pre)}
                                  ELSE {})
    IN /\ \A t \in d_last.ret.seen : StoredEntries(t) \in complete
       /\ StoredEntries(d_entries) \in complete

\* C13, the part that holds: when func reads nothing and raises nothing,
\* the caller finds the complete new set after modify.
ModifyEndsComplete ==
  (d_last.op = "modify" /\ d_last.ret.raised = "") =>
    StoredEntries(d_entries) = FuncImage(d_last.arg, d_last.pre)

\* C14: after a modify(func) that returned, the stored Entries are the
\* Entries func returned for the Entries stored before, each under its
\* phon; with the identity they are the Entries stored before, also in a
\* store Entries were deleted from.
C14_ModifyStoresTheImage ==
  (d_last.op = "modify" /\ d_last.ret.raised = "") =>
    /\ StoredEntries(d_entries) = FuncImage(d_last.arg, d_last.pre)
    /\ KeyedByPhon(d_entries)
    /\ d_last.arg = "identity" =>
         StoredEntries(d_entries) = StoredEntries(d_last.pre)
    /\ d_cache = EmptyMatchCache

\* C14 happens: the identity over a store that holds Entries and a key
\* whose Entries were all deleted.
C14_Witness ==
  /\ d_last.op = "modify"
  /\ d_last.arg = "identity"
  /\ d_last.ret.raised = ""
  /\ StoredEntries(d_last.pre) # {}
  /\ \E k \in DOMAIN d_last.pre : d_last.pre[k] = {}

\* C14 with a func that moves an Entry to another phon: a state SpecRewrite
\* reaches.
ModifyRenamed ==
  /\ d_last.op = "modify"
  /\ d_last.arg = "rename"
  /\ E_b \in StoredEntries(d_last.pre)

\* C15: populate(func) returns a new Dictionary of the same name whose
\* stored Entries are the Entries func returned for the Entries of the
\* source, each under its phon. Stated for the func that raise for no
\* Entry of the source.
C15_PopulateReturnsTheImage ==
  (d_last.op = "populate" /\ FuncTotal(d_last.arg, d_last.pre)) =>
    /\ d_last.ret.raised = ""
    /\ d_last.ret.new.name = DictName
    /\ StoredEntries(d_last.ret.new.entries) = FuncImage(d_last.arg, d_last.pre)
    /\ KeyedByPhon(d_last.ret.new.entries)

\* what draining match(req) yields with a store and a cache of match
MatchResult(trie, cache, req) ==
  LET r == match_drain(trie, match_call(cache, req), req)
  IN [raised |-> r.raised, out |-> r.out]

\* C16: populate leaves the source as it was, whether it returns or raises:
\* the store is the store before the call, iterating it yields the same
\* Entries, and match yields for every string what it would have yielded
\* before the call.
C16_PopulateLeavesSource ==
  d_last.op = "populate" =>
    /\ d_entries = d_last.pre
    /\ StoredEntries(d_entries) = StoredEntries(d_last.pre)
    /\ \A q \in RewriteQueries :
         MatchResult(d_entries, d_cache, q)
           = MatchResult(d_last.pre, d_last.ret.cache_pre, q)

\* C16 happens: a populate that raised, of a source that holds Entries and
\* whose cache of match holds an iterator.
C16_Witness ==
  /\ d_last.op = "populate"
  /\ d_last.ret.raised # ""
  /\ StoredEntries(d_last.pre) # {}
  /\ d_last.ret.cache_pre # EmptyMatchCache

\* C16 with a populate that returned: a state SpecRewrite reaches.
PopulateReturned == d_last.op = "populate" /\ d_last.ret.raised = ""


\* every feat of the store has one value per key
OneValuePerKey(trie) ==
  \A e \in StoredEntries(trie) : Cardinality(FeatKeys(e.feat)) = Cardinality(e.feat)

\* C17: a Model written with to_yaml and read with from_yaml holds the
\* Entries the original holds, whatever their number, for the class Model
\* and for a subclass that overrides populate. Stated for the stores whose
\* feats have one value per key.
C17_RoundTripKeepsEntries ==
  (m_last.op = "round_trip" /\ OneValuePerKey(m_entries)) =>
    StoredEntries(m_last.ret.loaded) = StoredEntries(m_entries)

\* C17 for the class Model alone, whose populate yields its argument: the
\* Model that is read holds the Entries the original holds.
RoundTripOfModelClass ==
  (m_last.op = "round_trip" /\ m_cls = "Model" /\ OneValuePerKey(m_entries)) =>
    StoredEntries(m_last.ret.loaded) = StoredEntries(m_entries)

\* the store after add(es[1]), add(es[2]), ... made one by one
RECURSIVE AfterAdds(_, _, _)
AfterAdds(cls, trie, es) ==
  IF es = <<>> THEN trie
  ELSE AfterAdds(cls, AddAll(trie, populate(cls, Head(es))), Tail(es))

\* C20: add(e) stores the Entries populate(e) yields and nothing else,
\* add_raw(e) stores e as it is; in the class Model, whose populate yields
\* its argument, add(e) leaves the store add_raw(e) leaves; add_batch(es)
\* leaves the store that add of every element of es leaves.
C20_AddStoresPopulated ==
  LET pre == m_last.pre
      arg == m_last.arg
  IN /\ m_last.op = "add" =>
          /\ StoredEntries(m_entries)
               = StoredEntries(pre) \cup Range(populate(m_cls, arg))
          /\ m_cls = "Model" => m_entries = Model__add(pre, arg)
     /\ m_last.op = "add_raw" =>
          /\ StoredEntries(m_entries) = StoredEntries(pre) \cup {arg}
          /\ m_entries = Model__add(pre, arg)
     /\ m_last.op = "add_batch" => m_entries = AfterAdds(m_cls, pre, arg)

\* C20 happens: add on an ExtModel of an Entry whose allomorph was not
\* stored.
C20_Witness ==
  /\ m_last.op = "add"
  /\ m_cls = "ExtModel"
  /\ Len(populate(m_cls, m_last.arg)) = 2
  /\ populate(m_cls, m_last.arg)[2] \notin StoredEntries(m_last.pre)

\* C20 with add_batch on an ExtModel: a state SpecExt reaches.
AddBatchPopulated ==
  /\ m_last.op = "add_batch"
  /\ m_cls = "ExtModel"
  /\ Len(m_last.arg) = 2
  /\ m_last.arg[1] # m_last.arg[2]

\* the calls that change a Model
Mutators == {"add_raw", "add_raw_batch", "add", "add_batch", "delete"}

\* what tokenize(req) returns now on the second instance
B_Tokenized(req) ==
  LET r == tokenize_call(b_entries, b_cache, req, 0)
  IN [raised |-> r.raised, val |-> r.val]

\* what tokenize(req) returns on the second instance when nothing is cached
B_Uncached(req) ==
  LET r == tokenize_call(b_entries, EmptyCache, req, 0)
  IN [raised |-> r.raised, val |-> r.val]

\* C19: the cache is per instance: a mutating call on one Model leaves
\* what the cache holds for the other Model as it was, and tokenize(q) on
\* the second Model never returns what was cached for the first: it
\* returns what its own store gives.
C19_CachePerInstance ==
  /\ [](\A q \in TwoQueries : B_Tokenized(q) = B_Uncached(q))
  /\ [][(m_last' # m_last /\ m_last'.op \in Mutators) => b_cache' = b_cache]_vars

\* C19, the part that holds: no result of one Model is returned for the
\* other, whose tokenize returns what its own store gives.
NoResultOfTheOtherInstance ==
  /\ \A q \in TwoQueries : B_Tokenized(q) = B_Uncached(q)
  /\ \A q \in TwoQueries : Tokenized(q) = Uncached(q)

\* the Entries the three lexicons held when they were made
EntriesOfABC ==
  StoredEntries(u.made["A"]) \cup StoredEntries(u.made["B"])
    \cup StoredEntries(u.made["C"])

\* C18: union(A, B) with C merged into it holds the Entries union(A, B, C)
\* holds, the Entries of A, B and C, whether these overlap or not; union
\* makes a new lexicon, merge changes its receiver only, and A, B and C are
\* what they were; the loaders' result is this union.
C18_MergeAssociative ==
  /\ \A n \in {"A", "B", "C"} : u.lex[n] = u.made[n]
  /\ "AB" \in DOMAIN u.lex =>
       StoredEntries(u.lex["AB"]) =
         IF u.merged THEN EntriesOfABC
         ELSE StoredEntries(u.made["A"]) \cup StoredEntries(u.made["B"])
  /\ "ABC" \in DOMAIN u.lex => StoredEntries(u.lex["ABC"]) = EntriesOfABC
  /\ (u.merged /\ "ABC" \in DOMAIN u.lex) =>
       /\ StoredEntries(u.lex["AB"]) = StoredEntries(u.lex["ABC"])
       /\ u.lex["AB"] = u.lex["ABC"]

\* C18 happens: both unions are made, of lexicons that overlap, with
\* homophones on the two sides of the merge.
C18_Witness ==
  /\ u.merged
  /\ "ABC" \in DOMAIN u.lex
  /\ StoredEntries(u.made["A"]) \cap StoredEntries(u.made["C"]) # {}
  /\ E_a1 \in StoredEntries(u.made["B"])
  /\ E_a2 \in StoredEntries(u.made["C"])
  /\ E_a2 \notin StoredEntries(u.made["A"]) \cup StoredEntries(u.made["B"])

\* C21: after any insertions, deletions and rewrites every Entry sits in
\* the trie under the key that is its phon, so that iterating the store,
\* which chains the sets of the keys, yields every stored Entry once.
C21_KeyedByPhon ==
  /\ KeyedByPhon(d_entries)
  /\ IterCount(d_entries, DOMAIN d_entries) = Cardinality(StoredEntries(d_entries))

\* C21 happens: a rewrite has moved an Entry to another phon, next to an
\* Entry that was there, and a key holds two homophones.
C21_Witness ==
  /\ d_last.op = "modify"
  /\ d_last.arg = "rename"
  /\ d_last.ret.raised = ""
  /\ {E_b, E_ab} \subseteq StoredEntries(d_last.pre)
  /\ \E k \in DOMAIN d_entries : Cardinality(d_entries[k]) = 2

\* C21 for the Model, of the class Model or of a subclass whose populate
\* changes the phon: every Entry sits under its phon and is iterated once.
ModelKeyedByPhon ==
  /\ KeyedByPhon(m_entries)
  /\ Model__iter__(m_entries).count = Cardinality(StoredEntries(m_entries))

\* query[k:] for k >= 1: the proper suffixes of a string
ProperSuffixes(query) ==
  {SubSeq(query, k + 1, Len(query)) : k \in 1..Len(query)}

\* one top-level tokenize(query) on the store and the cache as they are:
\* every call below it has a proper suffix of query as its argument, one
\* shorter than the argument of its caller, and the body runs once for an
\* argument, for Len(query) + 1 arguments at most
SuffixRecursion(query) ==
  LET r == tokenize_call(m_entries, m_cache, query, 0)
  IN /\ \A c \in r.calls :
          /\ c[2] \in ProperSuffixes(query)
          /\ Len(c[2]) < Len(c[1])
     /\ \A a \in BagToSet(r.ran) : CopiesIn(a, r.ran) = 1
     /\ Cardinality(BagToSet(r.ran)) <= Len(query) + 1

\* C22: in a store without an Entry of empty phon, one top-level
\* tokenize(query) recurses on proper suffixes query[k:], k >= 1, only,
\* each call on a string shorter than its caller's, and runs the body for
\* Len(query) + 1 different arguments at most, once for each.
C22_RecursionOnSuffixes ==
  AllPhonsNonEmpty(m_entries) => \A q \in Queries : SuffixRecursion(q)

\* What does hold for C22: the same, for a trie that has no empty key.
RecursionOnSuffixesWithoutEmptyKey ==
  NoEmptyKey(m_entries) => \A q \in Queries : SuffixRecursion(q)

\* C22 in a state Spec reaches: a tokenize of three letters has recursed
\* and left three results in the cache.
SuffixesCached ==
  /\ m_last.op = "tokenize"
  /\ Len(m_last.arg) = 3
  /\ Cardinality(DOMAIN m_cache) = 3

\* C23: every key that keys() reports, and that len counts, holds an Entry:
\* the delete of the last Entry of a key takes the key away. Stated for the
\* stores that never held an empty phon.
C23_KeysHoldEntries ==
  NoEmptyKey(m_entries) =>
    /\ \A k \in Model_keys(m_entries) : m_entries[k] # {}
    /\ Model__len__(m_entries) = Cardinality({e.phon : e \in StoredEntries(m_entries)})

\* What does hold for C23: every phon that holds an Entry is a key that
\* keys() reports, once.
KeysCoverEntries ==
  {e.phon : e \in StoredEntries(m_entries)} \subseteq Model_keys(m_entries)

\* C24: add and add_batch are all or nothing when populate raises after it
\* has yielded: the call has stored nothing, or the cache is cleared; in no
\* state does tokenize return a result cached before a failed call that
\* changed the store.
C24_FailedAddAllOrNothing ==
  /\ (m_last.op \in {"add", "add_batch"} /\ m_last.ret.raised) =>
       (m_entries = m_last.pre \/ m_cache = EmptyCache)
  /\ \A q \in HookQueries : Tokenized(q) = Uncached(q)

\* What does hold for C24: the Entries populate yielded before it raised
\* are stored, and a call that raised nothing leaves an empty cache.
FailedAddKeepsTheYielded ==
  /\ (m_last.op = "add" /\ m_last.ret.raised) =>
       Range(populate(m_cls, m_last.arg)) \subseteq StoredEntries(m_entries)
  /\ (m_last.op \in {"add", "add_batch"} /\ ~m_last.ret.raised) =>
       m_cache = EmptyCache

====
